---- MODULE Spec2Model ----
(***************************************************************************)
(* The max-params rule (lib/rules/max-params.js): option resolution in     *)
(* create(), receiver elision in removeVoidThisParam(), the threshold      *)
(* check in checkFunction(), and the visitor map that routes five node     *)
(* types to checkFunction.                                                 *)
(*                                                                         *)
(* JavaScript values that may be undefined, a number, a boolean or an      *)
(* object are modelled as tagged records (field typeof), so that           *)
(* `typeof x`, `a || b`, Object.hasOwn and `n > undefined` are computed    *)
(* as JavaScript computes them.                                            *)
(***************************************************************************)
EXTENDS Integers, Sequences, FiniteSets

VARIABLES
    option,         \* context.options[0], the raw option handed to create()
    numParams,      \* `let numParams` of create()
    countVoidThis,  \* `let countVoidThis` of create()
    phase,          \* "create": create() has not run its body; "run": visitors installed
    reports,        \* the diagnostics handed to context.report, in call order
    trace           \* one entry per checkFunction call: the node, processedNode, what it reported

vars == <<option, numParams, countVoidThis, phase, reports, trace>>

----------------------------------------------------------------------------
(* Bounds *)

MaxParamsLen == 5
MaxOpt == 2
MaxVisits == 3

----------------------------------------------------------------------------
(* JavaScript values *)

JsUndefined == [typeof |-> "undefined"]
Num(n) == [typeof |-> "number", value |-> n]
Bool(b) == [typeof |-> "boolean", bool |-> b]
Obj(p) == [typeof |-> "object", props |-> p]

\* Truthiness of a JavaScript value, as used by `||` and `!`.
Truthy(v) ==
    CASE v.typeof = "undefined" -> FALSE
      [] v.typeof = "number" -> v.value # 0
      [] v.typeof = "boolean" -> v.bool
      [] OTHER -> TRUE

\* a || b
Or(a, b) == IF Truthy(a) THEN a ELSE b

\* Object.hasOwn(o, key)
hasOwn(o, key) == key \in DOMAIN o.props

\* o.key: undefined when the object has no such property
Get(o, key) == IF key \in DOMAIN o.props THEN o.props[key] ELSE JsUndefined

\* len > v, len an array length: the comparison with undefined is false
GreaterThanAtLeast(len, v) == v.typeof = "number" /\ len >= v.value
GreaterThan(len, v) == v.typeof = "number" /\ len > v.value

----------------------------------------------------------------------------
(* Options the schema accepts *)

OptionKeys == {"maximum", "max", "countVoidThis"}

SchemaValue(key, v) ==
    IF key = "countVoidThis" THEN v.typeof = "boolean" ELSE v.typeof = "number"

PropValues == {Num(n) : n \in 0..MaxOpt} \cup {Bool(b) : b \in BOOLEAN}

ObjectProps ==
    UNION { {p \in [D -> PropValues] : \A k \in D : SchemaValue(k, p[k])} :
            D \in SUBSET OptionKeys }

Options ==
    {JsUndefined} \cup {Num(n) : n \in 0..MaxOpt} \cup {Obj(p) : p \in ObjectProps}

----------------------------------------------------------------------------
(* Nodes *)

FunctionTypes ==
    {"FunctionDeclaration", "ArrowFunctionExpression", "FunctionExpression",
     "TSDeclareFunction", "TSFunctionType"}

Annotation(t) == [type |-> "TSTypeAnnotation", typeAnnotation |-> [type |-> t]]

thisVoid == [type |-> "Identifier", name |-> "this", typeAnnotation |-> Annotation("TSVoidKeyword")]
thisNumber == [type |-> "Identifier", name |-> "this", typeAnnotation |-> Annotation("TSNumberKeyword")]
thisBare == [type |-> "Identifier", name |-> "this"]
aVoid == [type |-> "Identifier", name |-> "a", typeAnnotation |-> Annotation("TSVoidKeyword")]
aBare == [type |-> "Identifier", name |-> "a"]
patternVoid == [type |-> "ObjectPattern", typeAnnotation |-> Annotation("TSVoidKeyword")]

FirstParams == {thisVoid, thisNumber, thisBare, aVoid, aBare, patternVoid}
LaterParams == {aBare, thisVoid}

LaterLists(n) == UNION {[1..k -> LaterParams] : k \in 0..n}

ParamLists(maxLen) ==
    {<<>>} \cup
    (IF maxLen = 0 THEN {}
     ELSE {<<p>> \o r : p \in FirstParams, r \in LaterLists(maxLen - 1)})

NodesOver(lists) == {[type |-> t, params |-> ps] : t \in FunctionTypes, ps \in lists}

Nodes == NodesOver(ParamLists(MaxParamsLen))

RunParamLists == {<<>>, <<thisVoid>>, <<aBare, thisVoid>>, <<thisVoid, aBare, aBare>>}

RunNodes == NodesOver(RunParamLists)

RunOptions ==
    {Num(0), Num(1),
     Obj([max |-> Num(1), countVoidThis |-> Bool(TRUE)]),
     Obj([maximum |-> Num(0)])}

----------------------------------------------------------------------------
(* create(): option resolution *)

DefaultNumParamsPlusOne == 3 + 1
DefaultNumParams == 3

\* option.maximum || option.max
pickMaxFirst(o) == Or(Get(o, "max"), Get(o, "maximum"))
pickMaximum(o) == Or(Get(o, "maximum"), Get(o, "max"))

\* The values of numParams and countVoidThis when create() returns its visitors.
create(opt) ==
    LET numParams0 == Num(DefaultNumParams)
        countVoidThis0 == Bool(FALSE)
        numParams1 ==
            IF opt.typeof = "object" /\ (hasOwn(opt, "maximum") \/ hasOwn(opt, "max"))
            THEN pickMaximum(opt)
            ELSE numParams0
        countVoidThis1 ==
            IF opt.typeof = "object" /\ hasOwn(opt, "countVoidThis")
            THEN Get(opt, "countVoidThis")
            ELSE countVoidThis0
        numParams2 == IF opt.typeof = "number" THEN opt ELSE numParams1
    IN [numParams |-> numParams2, countVoidThis |-> countVoidThis1]

----------------------------------------------------------------------------
(* removeVoidThisParam() *)

RECURSIVE withoutVoidThis(_)
withoutVoidThis(ps) ==
    IF ps = <<>> THEN <<>>
    ELSE IF Head(ps) = thisVoid THEN withoutVoidThis(Tail(ps))
    ELSE <<Head(ps)>> \o withoutVoidThis(Tail(ps))

\* A plausible slip: filtering every void `this` out instead of slicing the first.
removeEveryVoidThisParam(node) == [node EXCEPT !.params = withoutVoidThis(node.params)]

removeVoidThisParam(node) ==
    IF \/ Len(node.params) = 0
       \/ node.params[1].type # "Identifier"
       \/ "name" \notin DOMAIN node.params[1]
       \/ node.params[1].name # "this"
       \/ "typeAnnotation" \notin DOMAIN node.params[1]
       \/ node.params[1].typeAnnotation.typeAnnotation.type # "TSVoidKeyword"
    THEN node
    ELSE [node EXCEPT !.params = SubSeq(node.params, 2, Len(node.params))]

----------------------------------------------------------------------------
(* Helpers of the host: ast-utils and string-utils *)

getFunctionHeadLoc(node) == <<"headLoc", node>>
getFunctionNameWithKind(node) == <<"nameWithKind", node>>
upperCaseFirst(s) == <<"upperCaseFirst", s>>

----------------------------------------------------------------------------
(* checkFunction() *)

\* const processedNode = !countVoidThis ? removeVoidThisParam(node) : node
processedAlwaysElided(node, cvt) == removeVoidThisParam(node)
processed(node, cvt) == IF ~Truthy(cvt) THEN removeVoidThisParam(node) ELSE node

\* The descriptor passed to context.report.
descriptorOfProcessed(node, processedNode, max) ==
    [loc |-> getFunctionHeadLoc(processedNode),
     node |-> processedNode,
     messageId |-> "exceed",
     data |-> [name |-> upperCaseFirst(getFunctionNameWithKind(processedNode)),
               count |-> Len(processedNode.params),
               max |-> max]]
descriptor(node, processedNode, max) ==
    [loc |-> getFunctionHeadLoc(node),
     node |-> node,
     messageId |-> "exceed",
     data |-> [name |-> upperCaseFirst(getFunctionNameWithKind(node)),
               count |-> Len(processedNode.params),
               max |-> max]]

\* What one call of checkFunction hands to context.report, under the given options.
check(node, max, cvt) ==
    LET processedNode == processed(node, cvt)
    IN [node |-> node,
        processedNode |-> processedNode,
        reports |-> IF GreaterThan(Len(processedNode.params), max)
                    THEN <<descriptor(node, processedNode, max)>>
                    ELSE <<>>]

\* The call's effect on the state.
record(call) ==
    /\ reports' = reports \o call.reports
    /\ trace' = Append(trace, call)
    /\ UNCHANGED <<option, numParams, countVoidThis, phase>>

\* A slip that drops the threshold test.
checkFunctionUnguarded(node) ==
    LET call == check(node, numParams, countVoidThis)
    IN record([call EXCEPT !.reports = <<descriptor(node, call.processedNode, numParams)>>])

\* A slip that carries state from one node to the next.
checkFunctionCarrying(node) ==
    record(check(node, IF reports = <<>> THEN numParams ELSE Num(0), countVoidThis))

checkFunction(node) == record(check(node, numParams, countVoidThis))

----------------------------------------------------------------------------
(* The state machine *)

InitOver(opts) ==
    /\ option \in opts
    /\ numParams = Num(DefaultNumParams)
    /\ countVoidThis = Bool(FALSE)
    /\ phase = "create"
    /\ reports = <<>>
    /\ trace = <<>>

Create ==
    /\ phase = "create"
    /\ numParams' = create(option).numParams
    /\ countVoidThis' = create(option).countVoidThis
    /\ phase' = "run"
    /\ UNCHANGED <<option, reports, trace>>

\* The host calls a visitor only once create() has returned them; the traversal
\* is cut off after maxVisits nodes.
Visiting(maxVisits) ==
    /\ phase = "run"
    /\ Len(trace) < maxVisits

\* The visitor map: each of the five node types is routed to checkFunction.
FunctionDeclaration(nodes, maxVisits) ==
    /\ Visiting(maxVisits)
    /\ \E node \in nodes : node.type = "FunctionDeclaration" /\ checkFunction(node)

ArrowFunctionExpression(nodes, maxVisits) ==
    /\ Visiting(maxVisits)
    /\ \E node \in nodes : node.type = "ArrowFunctionExpression" /\ checkFunction(node)

FunctionExpression(nodes, maxVisits) ==
    /\ Visiting(maxVisits)
    /\ \E node \in nodes : node.type = "FunctionExpression" /\ checkFunction(node)

TSDeclareFunction(nodes, maxVisits) ==
    /\ Visiting(maxVisits)
    /\ \E node \in nodes : node.type = "TSDeclareFunction" /\ checkFunction(node)

TSFunctionType(nodes, maxVisits) ==
    /\ Visiting(maxVisits)
    /\ \E node \in nodes : node.type = "TSFunctionType" /\ checkFunction(node)

\* One node of any shape up to MaxParamsLen parameters, under any accepted option.
Init == InitOver(Options)

Next ==
    \/ Create
    \/ FunctionDeclaration(Nodes, 1)
    \/ ArrowFunctionExpression(Nodes, 1)
    \/ FunctionExpression(Nodes, 1)
    \/ TSDeclareFunction(Nodes, 1)
    \/ TSFunctionType(Nodes, 1)

Spec == Init /\ [][Next]_vars

\* A traversal of up to MaxVisits nodes.
InitRun == InitOver(RunOptions)

NextRun ==
    \/ Create
    \/ FunctionDeclaration(RunNodes, MaxVisits)
    \/ ArrowFunctionExpression(RunNodes, MaxVisits)
    \/ FunctionExpression(RunNodes, MaxVisits)
    \/ TSDeclareFunction(RunNodes, MaxVisits)
    \/ TSFunctionType(RunNodes, MaxVisits)

SpecRun == InitRun /\ [][NextRun]_vars

----------------------------------------------------------------------------
(* What the rule is meant to compute, stated without the rule's own operators *)

\* The node's first parameter is `this: void`.
VoidThisFirst(node) == node.params # <<>> /\ node.params[1] = thisVoid

\* The effective (counted) parameter count of a node.
EffectiveCount(node, cvt) ==
    IF VoidThisFirst(node) /\ cvt = Bool(FALSE)
    THEN Len(node.params) - 1
    ELSE Len(node.params)

IsMaxParams(v) == v.typeof = "number" /\ v.value \in Nat

\* The only call of a run that has visited one node.
OneVisit == phase = "run" /\ Len(trace) = 1

----------------------------------------------------------------------------
(* C1: when the resolved maximum is a non-negative integer m, a visit of a  *)
(* node with effective count c reports iff c > m, and then reports exactly  *)
(* one diagnostic with messageId "exceed", data.count = c and data.max = m  *)
(* (so none at c = m and one at c = m + 1).                                 *)
ThresholdBoundary ==
    (OneVisit /\ IsMaxParams(numParams)) =>
        LET c == EffectiveCount(trace[1].node, countVoidThis)
            m == numParams.value
        IN /\ (c > m) <=> (reports # <<>>)
           /\ Len(reports) <= 1
           /\ (c = m + 1) => Len(reports) = 1
           /\ reports # <<>> =>
                /\ reports[1].messageId = "exceed"
                /\ reports[1].data.count = c
                /\ reports[1].data.max = Num(m)

ThresholdBoundaryWitness ==
    /\ OneVisit
    /\ numParams = Num(2)
    /\ EffectiveCount(trace[1].node, countVoidThis) = 3
    /\ Len(reports) = 1
    /\ reports[1].data.count = 3

(* C2: for a node whose first parameter is `this: void` and which has n     *)
(* parameters, the count compared and reported is n - 1 when countVoidThis  *)
(* is false and n when it is true.                                          *)
ElisionCorrectness ==
    (OneVisit /\ VoidThisFirst(trace[1].node)) =>
        LET n == Len(trace[1].node.params)
            used == IF countVoidThis = Bool(TRUE) THEN n ELSE n - 1
        IN /\ Len(trace[1].processedNode.params) = used
           /\ reports # <<>> => reports[1].data.count = used
           /\ IsMaxParams(numParams) => ((reports # <<>>) <=> (used > numParams.value))

ElisionCorrectnessWitness ==
    /\ OneVisit
    /\ trace[1].node.params = <<thisVoid, aBare, aBare, aBare, aBare>>
    /\ numParams = Num(3)
    /\ countVoidThis = Bool(TRUE)
    /\ Len(reports) = 1
    /\ reports[1].data.count = 5

(* C3: elision removes at most one parameter and only the one at index 0:   *)
(* the counted sequence is the parameter list or its tail, every parameter  *)
(* at index >= 1 (a `this: void` among them) stays, for either value of     *)
(* countVoidThis.                                                           *)
ElisionPositionSensitive ==
    \A i \in 1..Len(trace) :
        LET ps == trace[i].node.params
            qs == trace[i].processedNode.params
        IN /\ Len(qs) \in {Len(ps), Len(ps) - 1}
           /\ Len(qs) = Len(ps) => qs = ps
           /\ Len(qs) = Len(ps) - 1 => (ps[1] = thisVoid /\ qs = Tail(ps))
           /\ \A k \in 2..Len(ps) : ps[k] = thisVoid => qs[k - (Len(ps) - Len(qs))] = thisVoid

ElisionPositionSensitiveWitness ==
    /\ OneVisit
    /\ countVoidThis = Bool(FALSE)
    /\ trace[1].node.params = <<thisVoid, thisVoid, aBare>>
    /\ trace[1].processedNode.params = <<thisVoid, aBare>>

(* C4: {maximum: m} and {max: m} resolve to the same maximum and give the   *)
(* same diagnostics for every node, for every m >= 0 the schema accepts.    *)
AliasEquivalence ==
    (phase = "run" /\ option.typeof = "object" /\ DOMAIN option.props = {"maximum"}) =>
        LET alias == create(Obj([max |-> option.props.maximum]))
        IN /\ alias.numParams = numParams
           /\ alias.countVoidThis = countVoidThis
           /\ \A i \in 1..Len(trace) :
                check(trace[i].node, alias.numParams, alias.countVoidThis).reports
                    = trace[i].reports

(* C5: for every option the schema accepts, the maximum resolved by         *)
(* create() is a non-negative integer, and it and countVoidThis keep their  *)
(* values across every node visit.                                          *)
OptionInvariant ==
    [][/\ phase' = "run" => IsMaxParams(numParams')
       /\ phase = "run" => (numParams' = numParams /\ countVoidThis' = countVoidThis)]_vars

(* C6: with no option configured the resolved options are 3 and false; a    *)
(* node with 4 counted parameters gets one diagnostic with count 4 and max  *)
(* 3, a node with 3 gets none.                                              *)
DefaultBehaviour ==
    (phase = "run" /\ option = JsUndefined) =>
        /\ numParams = Num(3)
        /\ countVoidThis = Bool(FALSE)
        /\ \A i \in 1..Len(trace) :
            LET c == EffectiveCount(trace[i].node, Bool(FALSE))
            IN /\ c = 4 => /\ Len(trace[i].reports) = 1
                           /\ trace[i].reports[1].data.count = 4
                           /\ trace[i].reports[1].data.max = Num(3)
                           /\ reports = trace[i].reports
               /\ c = 3 => (trace[i].reports = <<>> /\ reports = <<>>)

DefaultBehaviourWitness ==
    /\ OneVisit
    /\ option = JsUndefined
    /\ trace[1].node.params = <<aBare, aBare, aBare, aBare>>
    /\ Len(reports) = 1
    /\ reports[1].data.max = Num(3)

----------------------------------------------------------------------------
(* Claims about a traversal *)

\* The nodes visited so far, in visit order.
Visited == [i \in 1..Len(trace) |-> trace[i].node]

\* Whether a node's effective count exceeds the resolved maximum.
Exceeds(node) ==
    numParams.typeof = "number" /\ EffectiveCount(node, countVoidThis) > numParams.value

\* The subsequence of nodes whose effective count exceeds the maximum.
RECURSIVE Exceeding(_)
Exceeding(nodes) ==
    IF nodes = <<>> THEN <<>>
    ELSE IF Exceeds(Head(nodes)) THEN <<Head(nodes)>> \o Exceeding(Tail(nodes))
    ELSE Exceeding(Tail(nodes))

(* C7: after any sequence of visits the emitted diagnostics are exactly the *)
(* visited nodes whose effective count exceeds the maximum, in visit order, *)
(* one diagnostic per such node and none for any other.                     *)
EmissionOrder ==
    /\ [k \in 1..Len(reports) |-> reports[k].node] = Exceeding(Visited)
    /\ \A k \in 1..Len(reports) :
        /\ reports[k].messageId = "exceed"
        /\ reports[k].data.count = EffectiveCount(reports[k].node, countVoidThis)
        /\ reports[k].data.max = numParams

EmissionOrderWitness ==
    /\ Len(trace) = 3
    /\ Len(reports) = 2
    /\ trace[1].reports # <<>>
    /\ trace[2].reports = <<>>
    /\ reports[1].node = trace[1].node
    /\ reports[2].node = trace[3].node
    /\ reports[1].node # reports[2].node

(* C8: two visits of the same node under the same resolved options give the *)
(* same diagnostic output, whatever was visited before either of them.      *)
Idempotence ==
    \A i, j \in 1..Len(trace) :
        trace[i].node = trace[j].node =>
            /\ trace[i].reports = trace[j].reports
            /\ trace[i].processedNode = trace[j].processedNode

IdempotenceWitness ==
    /\ Len(trace) = 3
    /\ trace[1].node = trace[3].node
    /\ trace[2].node # trace[1].node
    /\ trace[1].reports # <<>>
    /\ trace[2].reports # <<>>
    /\ trace[3].reports = trace[1].reports

(* C9: elision leaves the visited node as it was: the diagnostic's node and *)
(* location are those of the original node, which keeps its receiver        *)
(* parameter, while data.count is the length of the working copy.           *)
ElisionLeavesNode ==
    \A i \in 1..Len(trace) :
        LET e == trace[i]
        IN /\ e.processedNode # e.node =>
                /\ VoidThisFirst(e.node)
                /\ Len(e.node.params) = Len(e.processedNode.params) + 1
                /\ e.processedNode.type = e.node.type
           /\ \A k \in 1..Len(e.reports) :
                /\ e.reports[k].node = e.node
                /\ e.reports[k].loc = getFunctionHeadLoc(e.node)
                /\ e.reports[k].data.name = upperCaseFirst(getFunctionNameWithKind(e.node))
                /\ e.reports[k].data.count = Len(e.processedNode.params)

ElisionLeavesNodeWitness ==
    /\ OneVisit
    /\ trace[1].node.params = <<thisVoid, aBare, aBare>>
    /\ trace[1].processedNode.params = <<aBare, aBare>>
    /\ Len(reports) = 1
    /\ reports[1].node.params = <<thisVoid, aBare, aBare>>
    /\ reports[1].data.count = 2

(* C10: when both maximum and max are present the resolved maximum is       *)
(* maximum when it is non-zero and max otherwise; countVoidThis is the      *)
(* object's countVoidThis field, or false when the field is absent.         *)
AliasPrecedence ==
    (/\ phase = "run"
     /\ option.typeof = "object"
     /\ {"maximum", "max"} \subseteq DOMAIN option.props) =>
        /\ numParams = IF option.props.maximum.value # 0
                       THEN option.props.maximum
                       ELSE option.props.max
        /\ countVoidThis = IF "countVoidThis" \in DOMAIN option.props
                           THEN option.props.countVoidThis
                           ELSE Bool(FALSE)

AliasPrecedenceWitness ==
    /\ phase = "run"
    /\ option = Obj([maximum |-> Num(0), max |-> Num(2), countVoidThis |-> Bool(TRUE)])
    /\ numParams = Num(2)
    /\ countVoidThis = Bool(TRUE)

====
